---- MODULE Spec2Model ----
(***************************************************************************)
(* Kyco controller (src/kyco/controller.py): the switch registry, the      *)
(* listener table and its dispatch, the four buffer handlers, the NApp     *)
(* manager and start()/stop().                                             *)
(*                                                                         *)
(* The handler threads that start() creates run the loops of               *)
(* kyco.core.event_handlers over the arguments start() hands them          *)
(* (events_listeners, connection_pool and the buffers); the loops are      *)
(* modelled from the controller's own methods of the same names, reading   *)
(* the listener table and buffers that start() passes.  KycoSwitch,        *)
(* KycoBuffers and the TCP server are not part of the sources at hand and  *)
(* are modelled from the specification (sections 3, 4.1-4.3, 4.8).         *)
(***************************************************************************)
EXTENDS Integers, Sequences, FiniteSets, TLC

\* ------------------------------------------------------------------ bounds
MaxFrames == 2      \* frames the switches send, over all sockets
MaxStarts == 1      \* calls of start() that get past the server's bind
MaxStops == 2       \* calls of stop() that get past self.server
MaxCalls == 2       \* direct load_napp / unload_napp / unload_napps calls

Dpids == {1, 2}
Socks == {1, 2}
None == 0

Threads == {"tcp_server", "raw_event_handler", "msg_in_event_handler",
            "msg_out_event_handler", "app_event_handler"}

\* ------------------------------------------------------------ the NApps dir
\* Three bundles: a (user NApp), b (core NApp), c (user NApp).
Napps == {"a", "b", "c"}
CoreNapps == {"b"}

\* ----------------------------------------------------------------- events
\* type(event).__name__, cut into the pieces the patterns are made of.
TypeName(kind) ==
  CASE kind = "KycoNewConnection"  -> <<"Kyco", "New", "Connection">>
    [] kind = "KycoConnectionLost" -> <<"Kyco", "ConnectionLost">>
    [] kind = "KycoSwitchUp"       -> <<"Kyco", "Switch", "Up">>
    [] kind = "KycoSwitchDown"     -> <<"Kyco", "Switch", "Down">>
    [] kind = "KycoRawEvent"       -> <<"Kyco", "Raw", "Event">>
    [] kind = "KycoMsgIn"          -> <<"Kyco", "Msg", "In">>
    [] kind = "KycoMsgOut"         -> <<"Kyco", "Msg", "Out">>
    [] kind = "KycoShutdownEvent"  -> <<"Kyco", "Shutdown", "Event">>

Event(kind, connection, socket, timestamp) ==
  [kind |-> kind, connection |-> connection, socket |-> socket,
   timestamp |-> timestamp]

KycoShutdownEvent == Event("KycoShutdownEvent", None, None, 0)

\* re.match(key, name): the pattern has to match at the start of the name,
\* not the whole of it.
ReMatch(key, name) ==
  /\ Len(key) <= Len(name)
  /\ SubSeq(name, 1, Len(key)) = key

\* napp._listeners of each bundle: pattern -> callbacks, as (pattern, callbacks)
\* pairs in the order items() yields them.
NappListeners(n) ==
  CASE n = "a" -> << [key |-> <<"Kyco", "Msg", "In">>, cbs |-> <<"a_in">>] >>
    [] n = "b" -> << [key |-> <<"Kyco", "New", "Connection">>, cbs |-> <<"b_nc">>],
                     [key |-> <<"Kyco", "Msg", "In">>, cbs |-> <<"b_in">>] >>
    [] n = "c" -> << [key |-> <<"Kyco", "Switch">>, cbs |-> <<"c_sw">>],
                     [key |-> <<"Kyco", "New">>, cbs |-> <<"c_new">>] >>

NappCallbacks == {"a_in", "b_nc", "b_in", "c_sw", "c_new"}
Owner(cb) ==
  CASE cb = "a_in" -> "a" [] cb = "b_nc" -> "b" [] cb = "b_in" -> "b"
    [] cb = "c_sw" -> "c" [] cb = "c_new" -> "c" [] OTHER -> "controller"

\* The callbacks that may raise on an event.
Raisers == {"a_in"}

VARIABLES
  server,            \* self.server: "none" | "serving" | "closed"
  threads,           \* self._threads: thread -> "new" | "alive" | "done" | "crashed"
  ctl,               \* the caller of start()/stop(): "idle" | "joining"
  starts, stops, calls,
  raw_events, msg_in_events, msg_out_events, app_events,   \* self.buffers
  closed,            \* self.buffers have been closed by send_stop_signal
  connection_pool,   \* self.connection_pool: sockets the raw handler has seen
  switches,          \* self.switches: dpid -> KycoSwitch
  napps,             \* self.napps: the loaded bundles
  events_listeners,  \* self.events_listeners: sequence of (key, callbacks)
  loading,           \* where a running load_napps() is: [dir, items] still to do
  napps_dir,         \* os.listdir(self.options.napps), in the order it yields
  broken,            \* the bundles whose main.py is missing or whose Main() raises
  shutdown_calls,    \* bundle -> calls of its shutdown()
  sock,              \* socket -> "idle" | "open" | "shut" | "closed"
  sock_dpid,         \* socket -> the dpid it advertises
  frames,            \* socket -> frames enqueued for it so far
  budget,            \* frames the switches have still to send
  seen,              \* NApp callback -> connection -> the events it was invoked with
  handled,           \* the events the two built-in listeners were invoked with
  loaded_at_stop,    \* self.napps as the last stop() found it
  last               \* what the last call on the facade did

vars == <<server, threads, ctl, starts, stops, calls, raw_events, msg_in_events,
          msg_out_events, app_events, closed, connection_pool, switches, napps,
          events_listeners, loading, napps_dir, broken, shutdown_calls, sock, sock_dpid,
          frames, budget, seen, handled, loaded_at_stop, last>>

\* ------------------------------------------------------------ KycoBuffers
\* buffer.put(event): a closed buffer takes nothing more (BufferClosed is
\* logged by the buffer and the caller goes on).
put(q, e) == IF closed THEN q ELSE Append(q, e)

\* ------------------------------------------------------------- KycoSwitch
\* KycoSwitch(dpid, socket): a record with its own identity (id), the current
\* transport handle, the liveness flag and what NApps attached to it.
KycoSwitch(dpid, socket) ==
  [dpid |-> dpid, socket |-> socket, connected |-> TRUE, id |-> socket,
   meta |-> FALSE]

is_connected(sw) == sw.connected

save_connection(sw, socket) == [sw EXCEPT !.socket = socket, !.connected = TRUE]

disconnect(sw) == [sw EXCEPT !.connected = FALSE]

\* ------------------------------------------------------- switch registry
\* Both return [raised, switches].
\* No check of the entry that is there.
add_new_switch_overwrite(sws, switch) ==
  [raised |-> FALSE,
   switches |-> IF switch.dpid \in DOMAIN sws
                THEN [sws EXCEPT ![switch.dpid] = save_connection(@, switch.socket)]
                ELSE sws @@ (switch.dpid :> switch)]

\* A reconnecting switch gets the new record instead of the one it had.
add_new_switch_replace(sws, switch) ==
  IF switch.dpid \in DOMAIN sws
  THEN IF is_connected(sws[switch.dpid])
       THEN [raised |-> TRUE, switches |-> sws]
       ELSE [raised |-> FALSE, switches |-> [sws EXCEPT ![switch.dpid] = switch]]
  ELSE [raised |-> FALSE, switches |-> sws @@ (switch.dpid :> switch)]

\* The existing entry is rebound before the duplicate is reported.
add_new_switch_dirty(sws, switch) ==
  IF switch.dpid \in DOMAIN sws
  THEN [raised |-> is_connected(sws[switch.dpid]),
        switches |-> [sws EXCEPT ![switch.dpid] = save_connection(@, switch.socket)]]
  ELSE [raised |-> FALSE, switches |-> sws @@ (switch.dpid :> switch)]

add_new_switch(sws, switch) ==
  IF switch.dpid \in DOMAIN sws
  THEN IF is_connected(sws[switch.dpid])
       THEN [raised |-> TRUE, switches |-> sws]
       ELSE [raised |-> FALSE,
             switches |-> [sws EXCEPT ![switch.dpid] =
                                          save_connection(@, switch.socket)]]
  ELSE [raised |-> FALSE, switches |-> sws @@ (switch.dpid :> switch)]

\* The entry is dropped instead of being marked.
disconnect_switch_remove(sws, dpid) ==
  IF dpid \notin DOMAIN sws
  THEN [raised |-> TRUE, switches |-> sws]
  ELSE [raised |-> FALSE,
        switches |-> [x \in DOMAIN sws \ {dpid} |-> sws[x]]]

disconnect_switch(sws, dpid) ==
  IF dpid \notin DOMAIN sws
  THEN [raised |-> TRUE, switches |-> sws]
  ELSE [raised |-> FALSE, switches |-> [sws EXCEPT ![dpid] = disconnect(@)]]

\* ------------------------------------------------------- built-in listeners
\* What a dispatch reads and writes, threaded through the listeners it calls:
\* [switches, sock, app_events, msg_out_events, seen, handled, raised].
EvId(e) == <<e.kind, e.socket, e.timestamp>>

\* A switch that reconnects is rebound without a SwitchUp.
new_connection_handler_quiet(e, st) ==
  LET socket == e.socket
      dpid == e.connection
      switch == KycoSwitch(dpid, socket)
      r == add_new_switch(st.switches, switch)
      st1 == [st EXCEPT !.handled = @ \cup {<<"new_connection_handler", EvId(e)>>},
                        !.switches = r.switches]
  IN  IF r.raised
      THEN [st1 EXCEPT !.raised = TRUE]
      ELSE IF dpid \in DOMAIN st.switches
           THEN st1
           ELSE [st1 EXCEPT !.app_events = put(@, Event("KycoSwitchUp", dpid, None,
                                                        e.timestamp))]

new_connection_handler(e, st) ==
  LET socket == e.socket
      dpid == e.connection
      switch == KycoSwitch(dpid, socket)
      r == add_new_switch(st.switches, switch)
      st1 == [st EXCEPT !.handled = @ \cup {<<"new_connection_handler", EvId(e)>>},
                        !.switches = r.switches]
  IN  IF r.raised
      THEN [st1 EXCEPT !.raised = TRUE]
      ELSE [st1 EXCEPT !.app_events = put(@, Event("KycoSwitchUp", dpid, None,
                                                   e.timestamp))]

\* KycoSwitch.disconnect() also closes the transport it holds.
close_transport(sk, sws, dpid) ==
  IF dpid \in DOMAIN sws /\ sws[dpid].socket # None /\ sk[sws[dpid].socket] = "open"
  THEN [sk EXCEPT ![sws[dpid].socket] = "shut"]
  ELSE sk

\* The SwitchDown is put on app_events before disconnect_switch is called.
connection_lost_handler_early(e, st) ==
  LET r == disconnect_switch(st.switches, e.connection)
      st1 == [st EXCEPT !.handled = @ \cup {<<"connection_lost_handler", EvId(e)>>},
                        !.switches = r.switches,
                        !.app_events = put(@, Event("KycoSwitchDown", e.connection,
                                                    None, e.timestamp))]
  IN  IF r.raised
      THEN [st1 EXCEPT !.raised = TRUE]
      ELSE [st1 EXCEPT !.sock = close_transport(@, st.switches, e.connection)]

connection_lost_handler(e, st) ==
  LET r == disconnect_switch(st.switches, e.connection)
      st1 == [st EXCEPT !.handled = @ \cup {<<"connection_lost_handler", EvId(e)>>},
                        !.switches = r.switches]
  IN  IF r.raised
      THEN [st1 EXCEPT !.raised = TRUE]
      ELSE [st1 EXCEPT !.sock = close_transport(@, st.switches, e.connection),
                       !.app_events = put(@, Event("KycoSwitchDown", e.connection,
                                                   None, e.timestamp))]

\* A NApp's callback: R is the set of callbacks that raise on this event.
\* a_in answers the first message of a socket (its Hello) with a MsgOut for
\* the same connection; c_sw attaches its metadata to a switch that came up;
\* the others only take the event.
napp_listener(cb, e, st, R) ==
  LET st1 == [st EXCEPT !.seen[cb][e.connection] = Append(@, EvId(e))]
  IN  IF cb \in R
      THEN [st1 EXCEPT !.raised = TRUE]
      ELSE IF cb = "a_in" /\ e.timestamp = 1
           THEN [st1 EXCEPT !.msg_out_events =
                               put(@, Event("KycoMsgOut", e.connection, e.socket,
                                            e.timestamp))]
           ELSE IF cb = "c_sw" /\ e.kind = "KycoSwitchUp"
                   /\ e.connection \in DOMAIN st.switches
                THEN [st1 EXCEPT !.switches[e.connection].meta = TRUE]
                ELSE st1

listener(cb, e, st, R) ==
  CASE cb = "new_connection_handler"  -> new_connection_handler(e, st)
    [] cb = "connection_lost_handler" -> connection_lost_handler(e, st)
    [] OTHER                          -> napp_listener(cb, e, st, R)

\* ------------------------------------------------------------- dispatch
\* for key in listeners: if re.match(key, name): for listener in listeners[key]
RECURSIVE matching(_, _)
matching(table, name) ==
  IF table = <<>> THEN <<>>
  ELSE (IF ReMatch(Head(table).key, name) THEN Head(table).cbs ELSE <<>>)
       \o matching(Tail(table), name)

\* listener(event), one after the other; an exception leaves both loops.
RECURSIVE call_each(_, _, _, _)
call_each(cbs, e, st, R) ==
  IF cbs = <<>> \/ st.raised THEN st
  ELSE call_each(Tail(cbs), e, listener(Head(cbs), e, st, R), R)

notify_listeners(table, e, st, R) ==
  call_each(matching(table, TypeName(e.kind)), e, st, R)

Dispatch0 ==
  [switches |-> switches, sock |-> sock, app_events |-> app_events,
   msg_out_events |-> msg_out_events, seen |-> seen, handled |-> handled,
   raised |-> FALSE]

\* ---------------------------------------------------------- NApp manager
\* Both work on [napps, events_listeners, raised].
\* A pattern the table does not have yet goes in front of those it has.
extend_front(table, key, cbs) ==
  IF \E i \in 1..Len(table) : table[i].key = key
  THEN [i \in 1..Len(table) |->
          IF table[i].key = key
          THEN [key |-> key, cbs |-> table[i].cbs \o cbs]
          ELSE table[i]]
  ELSE << [key |-> key, cbs |-> cbs] >> \o table

RECURSIVE extend(_, _, _)
extend(table, key, cbs) ==
  IF table = <<>> THEN << [key |-> key, cbs |-> cbs] >>
  ELSE IF Head(table).key = key
       THEN << [key |-> key, cbs |-> Head(table).cbs \o cbs] >> \o Tail(table)
       ELSE << Head(table) >> \o extend(Tail(table), key, cbs)

RECURSIVE register(_, _)
register(table, items) ==
  IF items = <<>> THEN table
  ELSE register(extend(table, Head(items).key, Head(items).cbs), Tail(items))

load_napp(n, st) ==
  IF n \in broken
  THEN [st EXCEPT !.raised = TRUE]
  ELSE [st EXCEPT !.napps = @ \cup {n},
                  !.events_listeners = register(@, NappListeners(n))]

RECURSIVE load_napps(_, _)
load_napps(dir, st) ==
  IF dir = <<>> \/ st.raised THEN st
  ELSE load_napps(Tail(dir), load_napp(Head(dir), st))

\* napps.pop(name); napp.shutdown(): [napps, shutdown_calls, raised]
unload_napp(n, st) ==
  IF n \notin st.napps
  THEN [st EXCEPT !.raised = TRUE]
  ELSE [st EXCEPT !.napps = @ \ {n}, !.shutdown_calls[n] = @ + 1]

\* No look at the kind of NApp.
unload_napps_all(st) ==
  [st EXCEPT !.napps = {},
             !.shutdown_calls = [n \in Napps |->
                IF n \in st.napps THEN @[n] + 1 ELSE @[n]]]

unload_napps(st) ==
  [st EXCEPT !.napps = {n \in @ : n \in CoreNapps},
             !.shutdown_calls = [n \in Napps |->
                IF n \in st.napps /\ n \notin CoreNapps THEN @[n] + 1 ELSE @[n]]]

\* No load_napps() is running.
Idle == [dir |-> <<>>, items |-> <<>>]

\* ---------------------------------------------------------------- Init
Listings == {<<"a", "b", "c">>}
BrokenSets == {{}}

\* __init__: the two built-in registrations, everything else empty.
Init ==
  /\ server = "none"
  /\ threads = [t \in Threads |-> "new"]
  /\ ctl = "idle"
  /\ starts = 0 /\ stops = 0 /\ calls = 0
  /\ raw_events = <<>> /\ msg_in_events = <<>>
  /\ msg_out_events = <<>> /\ app_events = <<>>
  /\ closed = FALSE
  /\ connection_pool = {}
  /\ switches = <<>>
  /\ napps = {}
  /\ events_listeners =
       << [key |-> <<"Kyco", "New", "Connection">>,
           cbs |-> <<"new_connection_handler">>],
          [key |-> <<"Kyco", "ConnectionLost">>, cbs |-> <<"connection_lost_handler">>] >>
  /\ loading = Idle
  /\ napps_dir \in Listings
  /\ broken \in BrokenSets
  /\ shutdown_calls = [n \in Napps |-> 0]
  /\ sock = [s \in Socks |-> "idle"]
  /\ sock_dpid = [s \in Socks |-> None]
  /\ frames = [s \in Socks |-> 0]
  /\ budget = MaxFrames
  /\ seen = [cb \in NappCallbacks |-> [d \in Dpids |-> <<>>]]
  /\ handled = {}
  /\ loaded_at_stop = {}
  /\ last = "none"

env_vars == <<napps_dir, broken>>
net_vars == <<sock, sock_dpid, frames, budget>>
buf_vars == <<raw_events, msg_in_events, msg_out_events, app_events, closed>>
main_vars == <<server, ctl, starts, stops, calls, loaded_at_stop, last>>
napp_vars == <<napps, events_listeners, shutdown_calls, loading>>

\* ---------------------------------------------------------- TCP server
\* A socket is accepted and the dpid it will advertise is fixed.
accept(s) ==
  /\ server = "serving" /\ threads["tcp_server"] = "alive"
  /\ sock[s] = "idle"
  /\ \A t \in Socks : t < s => sock[t] # "idle"
  /\ \E d \in Dpids :
       /\ \A c \in Dpids : c < d => \E t \in Socks : sock_dpid[t] = c
       /\ sock_dpid' = [sock_dpid EXCEPT ![s] = d]
  /\ sock' = [sock EXCEPT ![s] = "open"]
  /\ UNCHANGED <<threads, buf_vars, connection_pool, switches, napp_vars,
                 env_vars, frames, budget, seen, handled, main_vars>>

\* The reader of s has a whole frame: a Raw event goes through raw_events.put.
recv(s) ==
  /\ sock[s] = "open"
  /\ budget > 0
  /\ budget' = budget - 1
  /\ raw_events' = put(raw_events,
                       Event("KycoRawEvent", sock_dpid[s], s, frames[s] + 1))
  /\ frames' = [frames EXCEPT ![s] = @ + 1]
  /\ UNCHANGED <<threads, msg_in_events, msg_out_events, app_events, closed,
                 connection_pool, switches, napp_vars, env_vars, sock, sock_dpid,
                 seen, handled, main_vars>>

\* The reader of s meets EOF or a read error (the peer went away, or the
\* controller closed the transport): ConnectionLost.
eof(s) ==
  /\ sock[s] \in {"open", "shut"}
  /\ raw_events' = put(raw_events,
                       Event("KycoConnectionLost", sock_dpid[s], s, frames[s] + 1))
  /\ sock' = [sock EXCEPT ![s] = "closed"]
  /\ UNCHANGED <<threads, msg_in_events, msg_out_events, app_events, closed,
                 connection_pool, switches, napp_vars, env_vars, sock_dpid, frames,
                 budget, seen, handled, main_vars>>

\* ------------------------------------------------------------ handlers
\* What the raw handler puts into the other buffers for one event, before it
\* fans the event out: [pool, app_events, msg_in_events].
promote(e, pool, app, min) ==
  IF e.kind = "KycoConnectionLost"
  THEN [pool |-> pool \ {e.socket}, app_events |-> put(app, e),
        msg_in_events |-> min]
  ELSE [pool |-> pool \cup {e.socket},
        app_events |-> IF e.socket \in pool THEN app
                       ELSE put(app, Event("KycoNewConnection", e.connection,
                                           e.socket, e.timestamp)),
        msg_in_events |-> put(min, Event("KycoMsgIn", e.connection, e.socket,
                                         e.timestamp))]

\* An exception a listener raises leaves the loop, and the thread with it.
Exit(st) == IF st.raised THEN "crashed" ELSE "alive"

\* No look at the kind of event: the sentinel is dispatched like any other
\* event and the loop goes on.
raw_event_handler_deaf ==
  /\ threads["raw_event_handler"] = "alive"
  /\ raw_events # <<>>
  /\ raw_events' = Tail(raw_events)
  /\ UNCHANGED <<threads, msg_in_events, msg_out_events, app_events, connection_pool,
                 switches, sock, seen, handled>>
  /\ UNCHANGED <<closed, napp_vars, env_vars, sock_dpid, frames, budget, main_vars>>

raw_event_handler ==
  /\ threads["raw_event_handler"] = "alive"
  /\ raw_events # <<>>
  /\ LET event == Head(raw_events) IN
     IF event.kind = "KycoShutdownEvent"
     THEN /\ threads' = [threads EXCEPT !["raw_event_handler"] = "done"]
          /\ raw_events' = Tail(raw_events)
          /\ UNCHANGED <<msg_in_events, msg_out_events, app_events, connection_pool,
                         switches, sock, seen, handled>>
     ELSE \E R \in SUBSET Raisers :
          LET p == promote(event, connection_pool, app_events, msg_in_events)
              st == IF event.kind = "KycoRawEvent"
                    THEN notify_listeners(events_listeners, event,
                                          [Dispatch0 EXCEPT !.app_events = p.app_events],
                                          R)
                    ELSE [Dispatch0 EXCEPT !.app_events = p.app_events]
          IN /\ raw_events' = Tail(raw_events)
             /\ connection_pool' = p.pool
             /\ msg_in_events' = p.msg_in_events
             /\ app_events' = st.app_events
             /\ msg_out_events' = st.msg_out_events
             /\ switches' = st.switches
             /\ sock' = st.sock
             /\ seen' = st.seen
             /\ handled' = st.handled
             /\ threads' = [threads EXCEPT !["raw_event_handler"]  = Exit(st)]
  /\ UNCHANGED <<closed, napp_vars, env_vars, sock_dpid, frames, budget, main_vars>>

\* One turn of the loop, on the event get() returned and the rest of the buffer.
msg_in_loop(event, rest) ==
  /\ threads["msg_in_event_handler"] = "alive"
  /\ IF event.kind = "KycoShutdownEvent"
     THEN /\ threads' = [threads EXCEPT !["msg_in_event_handler"] = "done"]
          /\ msg_in_events' = rest
          /\ UNCHANGED <<msg_out_events, app_events, switches, sock, seen, handled>>
     ELSE \E R \in SUBSET Raisers :
          LET st == notify_listeners(events_listeners, event, Dispatch0, R)
          IN /\ msg_in_events' = rest
             /\ app_events' = st.app_events
             /\ msg_out_events' = st.msg_out_events
             /\ switches' = st.switches
             /\ sock' = st.sock
             /\ seen' = st.seen
             /\ handled' = st.handled
             /\ threads' = [threads EXCEPT !["msg_in_event_handler"] = Exit(st)]
  /\ UNCHANGED <<raw_events, closed, connection_pool, napp_vars, env_vars,
                 sock_dpid, frames, budget, main_vars>>

\* The buffer read from its newest end.
msg_in_event_handler_lifo ==
  /\ msg_in_events # <<>>
  /\ msg_in_loop(msg_in_events[Len(msg_in_events)],
                 SubSeq(msg_in_events, 1, Len(msg_in_events) - 1))

msg_in_event_handler ==
  /\ msg_in_events # <<>>
  /\ msg_in_loop(Head(msg_in_events), Tail(msg_in_events))

\* send_to_switch: connection.send(message) raises on a transport that is no
\* longer open.
send_raises(sk, e) == sk[e.socket] # "open"

msg_out_event_handler ==
  /\ threads["msg_out_event_handler"] = "alive"
  /\ msg_out_events # <<>>
  /\ LET event == Head(msg_out_events) IN
     IF event.kind = "KycoShutdownEvent"
     THEN /\ threads' = [threads EXCEPT !["msg_out_event_handler"] = "done"]
          /\ msg_out_events' = Tail(msg_out_events)
          /\ UNCHANGED <<app_events, switches, sock, seen, handled>>
     ELSE \E R \in SUBSET Raisers :
          LET st0 == [Dispatch0 EXCEPT !.msg_out_events = Tail(msg_out_events)]
              st == IF send_raises(sock, event)
                    THEN [st0 EXCEPT !.raised = TRUE]
                    ELSE notify_listeners(events_listeners, event, st0, R)
          IN /\ msg_out_events' = st.msg_out_events
             /\ app_events' = st.app_events
             /\ switches' = st.switches
             /\ sock' = st.sock
             /\ seen' = st.seen
             /\ handled' = st.handled
             /\ threads' = [threads EXCEPT !["msg_out_event_handler"]  = Exit(st)]
  /\ UNCHANGED <<raw_events, msg_in_events, closed, connection_pool, napp_vars,
                 env_vars, sock_dpid, frames, budget, main_vars>>

app_event_handler ==
  /\ threads["app_event_handler"] = "alive"
  /\ app_events # <<>>
  /\ LET event == Head(app_events) IN
     IF event.kind = "KycoShutdownEvent"
     THEN /\ threads' = [threads EXCEPT !["app_event_handler"] = "done"]
          /\ app_events' = Tail(app_events)
          /\ UNCHANGED <<msg_out_events, switches, sock, seen, handled>>
     ELSE \E R \in SUBSET Raisers :
          LET st == notify_listeners(events_listeners, event,
                                     [Dispatch0 EXCEPT !.app_events = Tail(app_events)],
                                     R)
          IN /\ app_events' = st.app_events
             /\ msg_out_events' = st.msg_out_events
             /\ switches' = st.switches
             /\ sock' = st.sock
             /\ seen' = st.seen
             /\ handled' = st.handled
             /\ threads' = [threads EXCEPT !["app_event_handler"]  = Exit(st)]
  /\ UNCHANGED <<raw_events, msg_in_events, closed, connection_pool, napp_vars,
                 env_vars, sock_dpid, frames, budget, main_vars>>

\* -------------------------------------------------------------- facade
\* send_stop_signal: one KycoShutdownEvent on each of the four buffers, each
\* closed with the sentinel as its last item.
send_stop_signal(q) == put(q, KycoShutdownEvent)

\* start(): KycoServer(...) binds the port, which fails while an earlier
\* server still holds it; then the five threads are created and started and
\* load_napps() runs.  No state of the controller is consulted.
start ==
  /\ ctl = "idle"
  /\ IF server = "serving"
     THEN /\ last' = "start_raised"
          /\ UNCHANGED <<server, threads, starts, napp_vars>>
     ELSE /\ starts < MaxStarts
          /\ starts' = starts + 1
          /\ server' = "serving"
          /\ threads' = [t \in Threads |-> "alive"]
          /\ LET st == load_napps(napps_dir,
                                  [napps |-> napps,
                                   events_listeners |-> events_listeners,
                                   raised |-> FALSE])
             IN /\ napps' = st.napps
                /\ events_listeners' = st.events_listeners
                /\ last' = IF st.raised THEN "start_raised" ELSE "start_ok"
          /\ UNCHANGED <<shutdown_calls, loading>>
  /\ UNCHANGED <<ctl, stops, calls, loaded_at_stop, buf_vars, connection_pool,
                 switches, env_vars, net_vars, seen, handled>>

\* stop() up to its joins: self.server.socket.close() raises on a controller
\* that was never started (self.server is None); otherwise the server loop is
\* ended, the stop signal is sent and the user NApps are unloaded.
stop ==
  /\ ctl = "idle"
  /\ IF server = "none"
     THEN /\ last' = "stop_raised"
          /\ UNCHANGED <<server, threads, ctl, stops, loaded_at_stop, buf_vars,
                         napp_vars>>
     ELSE /\ stops < MaxStops
          /\ stops' = stops + 1
          /\ loaded_at_stop' = napps
          /\ server' = "closed"
          /\ threads' = [threads EXCEPT !["tcp_server"] =
                                           IF @ = "alive" THEN "done" ELSE @]
          /\ raw_events' = send_stop_signal(raw_events)
          /\ msg_in_events' = send_stop_signal(msg_in_events)
          /\ msg_out_events' = send_stop_signal(msg_out_events)
          /\ app_events' = send_stop_signal(app_events)
          /\ closed' = TRUE
          /\ LET st == unload_napps([napps |-> napps,
                                     shutdown_calls |-> shutdown_calls,
                                     raised |-> FALSE])
             IN /\ napps' = st.napps
                /\ shutdown_calls' = st.shutdown_calls
          /\ ctl' = "joining"
          /\ last' = "stop_called"
          /\ UNCHANGED <<events_listeners, loading>>
  /\ UNCHANGED <<starts, calls, connection_pool, switches, env_vars, net_vars,
                 seen, handled>>

\* thread.join() for every thread: stop() returns once none is alive.
stop_return ==
  /\ ctl = "joining"
  /\ \A t \in Threads : threads[t] # "alive"
  /\ ctl' = "idle"
  /\ last' = "stop_ok"
  /\ UNCHANGED <<server, threads, starts, stops, calls, loaded_at_stop, buf_vars,
                 connection_pool, switches, napp_vars, env_vars, net_vars, seen,
                 handled>>

\* Direct calls of the NApp manager.
call_load_napp(n) ==
  /\ ctl = "idle" /\ calls < MaxCalls
  /\ calls' = calls + 1
  /\ LET st == load_napp(n, [napps |-> napps, events_listeners |-> events_listeners,
                             raised |-> FALSE])
     IN /\ napps' = st.napps
        /\ events_listeners' = st.events_listeners
        /\ last' = IF st.raised THEN "load_raised" ELSE "load_ok"
  /\ UNCHANGED <<server, threads, ctl, starts, stops, loaded_at_stop, buf_vars,
                 connection_pool, switches, shutdown_calls, loading, env_vars,
                 net_vars, seen, handled>>

call_unload_napp(n) ==
  /\ ctl = "idle" /\ calls < MaxCalls
  /\ calls' = calls + 1
  /\ LET st == unload_napp(n, [napps |-> napps, shutdown_calls |-> shutdown_calls,
                               raised |-> FALSE])
     IN /\ napps' = st.napps
        /\ shutdown_calls' = st.shutdown_calls
        /\ last' = IF st.raised THEN "unload_raised" ELSE "unload_ok"
  /\ UNCHANGED <<server, threads, ctl, starts, stops, loaded_at_stop, buf_vars,
                 connection_pool, switches, events_listeners, loading, env_vars,
                 net_vars, seen, handled>>

call_unload_napps ==
  /\ ctl = "idle" /\ calls < MaxCalls
  /\ calls' = calls + 1
  /\ LET st == unload_napps([napps |-> napps, shutdown_calls |-> shutdown_calls,
                             raised |-> FALSE])
     IN /\ napps' = st.napps
        /\ shutdown_calls' = st.shutdown_calls
  /\ last' = "unload_all_ok"
  /\ UNCHANGED <<server, threads, ctl, starts, stops, loaded_at_stop, buf_vars,
                 connection_pool, switches, events_listeners, loading, env_vars,
                 net_vars, seen, handled>>

\* start() step by step, the handler threads running while it loads the
\* NApps.  First the server and the five threads are created and started.
start_threads ==
  /\ ctl = "idle"
  /\ server # "serving"
  /\ starts < MaxStarts
  /\ starts' = starts + 1
  /\ server' = "serving"
  /\ threads' = [t \in Threads |-> "alive"]
  /\ ctl' = "starting"
  /\ loading' = [dir |-> napps_dir, items |-> <<>>]
  /\ last' = "start_called"
  /\ UNCHANGED <<stops, calls, loaded_at_stop, buf_vars, connection_pool, switches,
                 napps, events_listeners, shutdown_calls, env_vars, net_vars, seen,
                 handled>>

\* load_napp up to self.napps[napp_name] = napp, for the next bundle of the
\* listing; a bundle that cannot be loaded raises out of load_napps and start.
load_napp_main ==
  /\ ctl = "starting"
  /\ loading.items = <<>> /\ loading.dir # <<>>
  /\ LET n == Head(loading.dir) IN
     IF n \in broken
     THEN /\ loading' = Idle
          /\ ctl' = "idle"
          /\ last' = "start_raised"
          /\ UNCHANGED napps
     ELSE /\ napps' = napps \cup {n}
          /\ loading' = [dir |-> Tail(loading.dir), items |-> NappListeners(n)]
          /\ UNCHANGED <<ctl, last>>
  /\ UNCHANGED <<server, threads, starts, stops, calls, loaded_at_stop, buf_vars,
                 connection_pool, switches, events_listeners, shutdown_calls,
                 env_vars, net_vars, seen, handled>>

\* One turn of load_napp's loop over napp._listeners.items().
load_napp_extend ==
  /\ ctl = "starting"
  /\ loading.items # <<>>
  /\ events_listeners' = extend(events_listeners, Head(loading.items).key,
                                Head(loading.items).cbs)
  /\ loading' = [loading EXCEPT !.items = Tail(@)]
  /\ UNCHANGED <<server, threads, ctl, starts, stops, calls, loaded_at_stop, last,
                 buf_vars, connection_pool, switches, napps, shutdown_calls,
                 env_vars, net_vars, seen, handled>>

\* load_napps has gone through the listing: start() returns.
start_return ==
  /\ ctl = "starting"
  /\ loading = Idle
  /\ ctl' = "idle"
  /\ last' = "start_ok"
  /\ UNCHANGED <<server, threads, starts, stops, calls, loaded_at_stop, buf_vars,
                 connection_pool, switches, napp_vars, env_vars, net_vars, seen,
                 handled>>

\* ------------------------------------------------------- specifications
\* The controller with its network, from construction to stop().
Next ==
  \/ start
  \/ stop
  \/ stop_return
  \/ \E s \in Socks : accept(s)
  \/ \E s \in Socks : recv(s)
  \/ \E s \in Socks : eof(s)
  \/ raw_event_handler
  \/ msg_in_event_handler
  \/ msg_out_event_handler
  \/ app_event_handler

Spec == Init /\ [][Next]_vars

\* A controller that is started and serves its switches.
NextServe ==
  \/ start
  \/ \E s \in Socks : accept(s)
  \/ \E s \in Socks : recv(s)
  \/ \E s \in Socks : eof(s)
  \/ raw_event_handler
  \/ msg_in_event_handler
  \/ msg_out_event_handler
  \/ app_event_handler

SpecServe == Init /\ [][NextServe]_vars

\* The NApp manager: any listing order of the NApps directory, bundle c
\* possibly broken, direct load and unload calls, one switch sending one frame.
ListingsNapps == {<<"a", "b", "c">>, <<"c", "a", "b">>, <<"b", "c", "a">>}
BrokenNapps == {{}, {"c"}}

InitNapps ==
  /\ server = "none"
  /\ threads = [t \in Threads |-> "new"]
  /\ ctl = "idle"
  /\ starts = 0 /\ stops = 0 /\ calls = 0
  /\ raw_events = <<>> /\ msg_in_events = <<>>
  /\ msg_out_events = <<>> /\ app_events = <<>>
  /\ closed = FALSE
  /\ connection_pool = {}
  /\ switches = <<>>
  /\ napps = {}
  /\ events_listeners =
       << [key |-> <<"Kyco", "New", "Connection">>,
           cbs |-> <<"new_connection_handler">>],
          [key |-> <<"Kyco", "ConnectionLost">>, cbs |-> <<"connection_lost_handler">>] >>
  /\ loading = Idle
  /\ napps_dir \in ListingsNapps
  /\ broken \in BrokenNapps
  /\ shutdown_calls = [n \in Napps |-> 0]
  /\ sock = [s \in Socks |-> "idle"]
  /\ sock_dpid = [s \in Socks |-> None]
  /\ frames = [s \in Socks |-> 0]
  /\ budget = 1
  /\ seen = [cb \in NappCallbacks |-> [d \in Dpids |-> <<>>]]
  /\ handled = {}
  /\ loaded_at_stop = {}
  /\ last = "none"

NextNapps ==
  \/ start
  \/ stop
  \/ stop_return
  \/ \E n \in Napps : call_load_napp(n)
  \/ \E n \in Napps : call_unload_napp(n)
  \/ call_unload_napps
  \/ accept(1)
  \/ recv(1)
  \/ raw_event_handler
  \/ msg_in_event_handler
  \/ msg_out_event_handler
  \/ app_event_handler

SpecNapps == InitNapps /\ [][NextNapps]_vars

\* start() with its steps interleaved with the threads it has started: any
\* listing order, bundle c possibly broken, one switch sending one frame.
NextLoad ==
  \/ start_threads
  \/ load_napp_main
  \/ load_napp_extend
  \/ start_return
  \/ accept(1)
  \/ recv(1)
  \/ eof(1)
  \/ raw_event_handler
  \/ msg_in_event_handler
  \/ msg_out_event_handler
  \/ app_event_handler

SpecLoad == InitNapps /\ [][NextLoad]_vars

\* ================================================================ claims
NewConnectionOf(s) == <<"new_connection_handler", <<"KycoNewConnection", s, 1>>>>

\* The app handler took the event at the head of app_events in this step.
AppTook ==
  /\ app_events # <<>>
  /\ app_events' # app_events
  /\ Len(app_events') <= Len(app_events)

\* C1: the registry is keyed by the dpid of the record it holds, a connected
\* record holds a socket that advertised that dpid, and as long as a dpid has a
\* connected record no step binds another connection to it: there are never
\* two live connections bound to one dpid.
C1_OneLiveSwitchPerDpid ==
  /\ [](\A d \in DOMAIN switches :
          /\ switches[d].dpid = d
          /\ is_connected(switches[d]) =>
               /\ switches[d].socket \in Socks
               /\ sock_dpid[switches[d].socket] = d)
  /\ [][\A d \in DOMAIN switches :
          is_connected(switches[d]) =>
            /\ d \in DOMAIN switches'
            /\ is_connected(switches'[d]) =>
                 /\ switches'[d].socket = switches[d].socket
                 /\ switches'[d].id = switches[d].id]_vars

\* A second live socket advertised a dpid whose record is connected to
\* another socket, and its NewConnection has been handled.
C1_Witness ==
  \E d \in DOMAIN switches : \E s \in Socks :
    /\ is_connected(switches[d])
    /\ s # switches[d].socket
    /\ sock_dpid[s] = d
    /\ sock[s] = "open" /\ sock[switches[d].socket] = "open"
    /\ NewConnectionOf(s) \in handled

\* C2: whenever a listener has been invoked with a MsgIn of a socket, the
\* built-in new-connection listener has been invoked with the NewConnection
\* of that socket.
C2_NewConnectionBeforeMsgIn ==
  \A cb \in NappCallbacks : \A d \in Dpids :
    \A i \in 1..Len(seen[cb][d]) :
      seen[cb][d][i][1] = "KycoMsgIn" =>
        NewConnectionOf(seen[cb][d][i][2]) \in handled

\* The MsgIn events of socket s that callback cb was invoked with, in order.
MsgInSeen(cb, d, s) ==
  LET OfSocket(x) == x[1] = "KycoMsgIn" /\ x[2] = s
  IN  SelectSeq(seen[cb][d], OfSocket)

\* C3: the MsgIn events of one socket that a listener has been invoked with
\* are frames that socket sent, each the successor of the one before it:
\* none twice, none out of order, none left out in between.
C3_PerSwitchFifo ==
  \A cb \in NappCallbacks : \A d \in Dpids : \A s \in Socks :
    LET q == MsgInSeen(cb, d, s)
    IN  /\ \A i \in 1..Len(q) : q[i][3] \in 1..frames[s]
        /\ \A i \in 1..(Len(q) - 1) : q[i + 1][3] = q[i][3] + 1

\* A listener has been invoked with two MsgIn events of one socket.
C3_Witness ==
  \E cb \in NappCallbacks : \E d \in Dpids : \E s \in Socks :
    Len(MsgInSeen(cb, d, s)) >= 2

\* C4: when stop() has returned no thread is alive and every NApp that was
\* loaded when stop() was called has had shutdown() called exactly once.
C4_CleanShutdown ==
  (last = "stop_ok" /\ stops = 1) =>
    /\ \A t \in Threads : threads[t] # "alive"
    /\ \A n \in loaded_at_stop : shutdown_calls[n] = 1

\* C5: a listener that raises does not keep the listeners after it from being
\* invoked with the event: b_in, registered after a_in for MsgIn, has seen
\* every event a_in has seen, and b_nc, registered after the built-in
\* new-connection listener, has seen every NewConnection that one handled.
C5_ListenerIsolation ==
  /\ \A d \in Dpids : seen["b_in"][d] = seen["a_in"][d]
  /\ \A h \in handled :
       h[1] = "new_connection_handler" =>
         \E d \in Dpids : \E i \in 1..Len(seen["b_nc"][d]) :
           seen["b_nc"][d][i] = h[2]

\* Callback cb is registered under key in the listener table.
Registered(key, cb) ==
  \E i \in 1..Len(events_listeners) :
    /\ events_listeners[i].key = key
    /\ \E j \in 1..Len(events_listeners[i].cbs) : events_listeners[i].cbs[j] = cb

\* C6: after load_napps every bundle of the directory that is not broken is
\* loaded and has its listeners registered.
C6_LoadIsolation ==
  (starts = 1 /\ calls = 0 /\ stops = 0) =>
    /\ napps = Napps \ broken
    /\ \A n \in Napps \ broken :
         \A i \in 1..Len(NappListeners(n)) :
           \A j \in 1..Len(NappListeners(n)[i].cbs) :
             Registered(NappListeners(n)[i].key, NappListeners(n)[i].cbs[j])

\* C7: every callback in the listener table belongs to the controller or to
\* a NApp that is loaded.
C7_UnloadCleanup ==
  \A i \in 1..Len(events_listeners) :
    \A j \in 1..Len(events_listeners[i].cbs) :
      Owner(events_listeners[i].cbs[j]) \in napps \cup {"controller"}

\* C8: start() gets to work only on a new controller and stop() only on a
\* running one.
C8_Lifecycle ==
  [][/\ starts' # starts => (server = "none" /\ stops = 0)
     /\ stops' # stops => (server = "serving" /\ ctl = "idle")]_vars

\* C9: handling NewConnection for a dpid that is absent inserts the new
\* record; for a dpid whose record is connected it raises (the exception
\* ends the handler thread) and leaves the registry as it was.
C9_AddNewSwitch ==
  [][(AppTook /\ Head(app_events).kind = "KycoNewConnection") =>
       LET e == Head(app_events)
           d == e.connection
       IN  IF d \notin DOMAIN switches
           THEN /\ switches' = switches @@
                      (d :> [dpid |-> d, socket |-> e.socket, connected |-> TRUE,
                             id |-> e.socket, meta |-> FALSE])
                /\ threads'["app_event_handler"] = "alive"
           ELSE switches[d].connected =>
                  /\ switches' = switches
                  /\ threads'["app_event_handler"] = "crashed"]_vars

\* The NewConnection of a second socket for a connected dpid was refused.
C9_Witness ==
  /\ threads["app_event_handler"] = "crashed"
  /\ \E d \in DOMAIN switches : \E s \in Socks :
       /\ switches[d].connected
       /\ switches[d].socket # s
       /\ sock_dpid[s] = d
       /\ NewConnectionOf(s) \in handled
       /\ Cardinality(DOMAIN switches) = 1

ConnectionLostOf(s, t) ==
  <<"connection_lost_handler", <<"KycoConnectionLost", s, t>>>>

\* C11: handling ConnectionLost calls disconnect_switch(dpid): for a dpid
\* that is not in the registry it raises (the exception ends the handler
\* thread) and the registry is as it was; otherwise the record of the dpid is
\* marked disconnected and is otherwise what it was, it stays in the
\* registry, and no other record changes.
C11_DisconnectSwitch ==
  [][(AppTook /\ Head(app_events).kind = "KycoConnectionLost") =>
       LET d == Head(app_events).connection
       IN  IF d \notin DOMAIN switches
           THEN /\ switches' = switches
                /\ threads'["app_event_handler"] = "crashed"
           ELSE /\ DOMAIN switches' = DOMAIN switches
                /\ ~switches'[d].connected
                /\ switches'[d] = [switches[d] EXCEPT !.connected = FALSE]
                /\ \A x \in DOMAIN switches \ {d} : switches'[x] = switches[x]
                /\ threads'["app_event_handler"] = "alive"]_vars

\* The ConnectionLost of a registered switch was handled while another
\* switch is connected.
C11_Witness ==
  \E d \in DOMAIN switches : \E x \in DOMAIN switches :
    /\ x # d
    /\ ~switches[d].connected
    /\ switches[x].connected
    /\ \E t \in 1..(frames[switches[d].socket] + 1) :
         ConnectionLostOf(switches[d].socket, t) \in handled

\* The built-in listeners were invoked with these events of dpid d.
HandledOf(d) == {h \in handled : sock_dpid[h[2][2]] = d}

\* The SwitchUp and SwitchDown events of dpid d, as (kind, timestamp), in the
\* order they were put on app_events: those a subscriber of both has been
\* invoked with, then those still in the buffer.
SwitchEventsOf(d) ==
  LET OfDpid(e) == e.kind \in {"KycoSwitchUp", "KycoSwitchDown"} /\ e.connection = d
      pending == SelectSeq(app_events, OfDpid)
  IN  [i \in 1..Len(seen["c_sw"][d]) |->
         <<seen["c_sw"][d][i][1], seen["c_sw"][d][i][3]>>]
      \o [i \in 1..Len(pending) |-> <<pending[i].kind, pending[i].timestamp>>]

Rejected(s) ==
  /\ NewConnectionOf(s) \in handled
  /\ sock_dpid[s] \in DOMAIN switches
  /\ switches[sock_dpid[s]].id # s
  /\ switches[sock_dpid[s]].socket # s

\* C13: a socket whose NewConnection was refused as a duplicate has been
\* closed, the registry binds the dpid to the first connection, and every
\* SwitchUp on app_events is for a dpid add_new_switch put in the registry.
C13_DuplicateRejected ==
  /\ \A s \in Socks : Rejected(s) => sock[s] \in {"shut", "closed"}
  /\ \A i \in 1..Len(app_events) :
       app_events[i].kind = "KycoSwitchUp" =>
         app_events[i].connection \in DOMAIN switches

\* C14: unload_napps, called directly or by stop(), leaves exactly the core
\* NApps that were loaded, calls shutdown() once on every other loaded NApp
\* and on no core NApp; unload_napp that succeeds removes one loaded NApp,
\* core or not, and calls its shutdown() once.
C14_BulkUnloadSparesCore ==
  [][/\ ((calls' # calls /\ last' = "unload_all_ok") \/ stops' # stops) =>
          /\ napps' = napps \cap CoreNapps
          /\ \A n \in Napps :
               shutdown_calls'[n] =
                 IF n \in napps \ CoreNapps THEN shutdown_calls[n] + 1
                 ELSE shutdown_calls[n]
     /\ (calls' # calls /\ last' = "unload_ok") =>
          \E n \in napps :
            /\ napps' = napps \ {n}
            /\ shutdown_calls' = [shutdown_calls EXCEPT ![n] = @ + 1]]_vars

\* unload_napps left the core NApp loaded and not shut down, and unload_napp
\* then unloaded it (or the other way round, unload_napps finding no core
\* NApp to spare).
C14_Witness ==
  /\ stops = 0 /\ calls = 2
  /\ last \in {"unload_ok", "unload_all_ok"}
  /\ napps = {}
  /\ \A n \in Napps : shutdown_calls[n] = 1

\* C15: no handler thread is ever ended by an exception.
C15_NoEscape ==
  \A t \in Threads \ {"tcp_server"} : threads[t] # "crashed"

\* The buffer each handler thread consumes.
Buffers ==
  [raw_event_handler |-> raw_events, msg_in_event_handler |-> msg_in_events,
   msg_out_event_handler |-> msg_out_events, app_event_handler |-> app_events]

Handlers == DOMAIN Buffers

IsSuffix(q, r) == \E k \in 0..Len(r) : q = SubSeq(r, k + 1, Len(r))

AllOrNone(n) ==
  LET In(i) == \A j \in 1..Len(NappListeners(n)[i].cbs) :
                 Registered(NappListeners(n)[i].key, NappListeners(n)[i].cbs[j])
      Out(i) == \A j \in 1..Len(NappListeners(n)[i].cbs) :
                  ~Registered(NappListeners(n)[i].key, NappListeners(n)[i].cbs[j])
  IN  \/ \A i \in 1..Len(NappListeners(n)) : In(i)
      \/ \A i \in 1..Len(NappListeners(n)) : Out(i)

\* C17: no load is under way in a step in which a handler dispatches an
\* event, and the table the dispatch goes through has, of each NApp, all of
\* its registrations or none.
C17_ConsistentView ==
  [][(seen' # seen \/ handled' # handled) =>
       /\ loading = Idle
       /\ \A n \in Napps : AllOrNone(n)]_vars

\* The msg-in handler took the event at the head of msg_in_events in this step.
MsgInTook ==
  /\ msg_in_events # <<>>
  /\ Len(msg_in_events') < Len(msg_in_events)

\* C18: listeners are invoked pattern by pattern in the order the patterns
\* came into the table and, within a pattern, in the order of registration.
\* The built-in new-connection listener, registered at construction, is
\* therefore invoked before b_nc (same pattern, registered later) and before
\* c_new (a pattern added later): when it refuses a NewConnection, its
\* exception ends the dispatch before any NApp listener is invoked; when it
\* admits one, both are invoked once with the record already in the
\* registry.  a_in, registered for MsgIn before b_in, is invoked before it:
\* when a_in raises b_in is not invoked.  A SwitchUp or SwitchDown is
\* dispatched only for a dpid the built-in listener has put in the registry.
C18_DispatchOrder ==
  [][/\ (AppTook /\ Head(app_events).kind = "KycoNewConnection") =>
          LET e == Head(app_events)
              d == e.connection
          IN  IF d \in DOMAIN switches /\ switches[d].connected
              THEN seen' = seen
              ELSE /\ d \in DOMAIN switches'
                   /\ seen' = [seen EXCEPT !["b_nc"][d] = Append(@, EvId(e)),
                                           !["c_new"][d] = Append(@, EvId(e))]
     /\ (AppTook /\ Head(app_events).kind \in {"KycoSwitchUp", "KycoSwitchDown"}) =>
          LET e == Head(app_events)
              d == e.connection
          IN  /\ d \in DOMAIN switches
              /\ seen' = [seen EXCEPT !["c_sw"][d] = Append(@, EvId(e))]
     /\ (MsgInTook /\ threads'["msg_in_event_handler"] = "crashed") =>
          LET e == Head(msg_in_events)
          IN  seen' = [seen EXCEPT !["a_in"][e.connection] = Append(@, EvId(e))]
    ]_vars

\* With the NApps loaded, one NewConnection of a dpid was admitted and seen
\* by both NApp listeners, and a second one was refused and seen by neither.
C18_Witness ==
  \E s \in Socks :
    /\ Rejected(s)
    /\ {"b", "c"} \subseteq napps
    /\ Len(seen["b_nc"][sock_dpid[s]]) = 1
    /\ Len(seen["c_new"][sock_dpid[s]]) = 1
    /\ seen["c_new"][sock_dpid[s]][1][2] # s

\* C19: when stop() has returned from a controller none of whose listeners
\* raised (no thread that runs listeners was ended by one), each of the four
\* handler threads has taken the sentinel from its buffer and exited.
C19_StopCompletes ==
  (/\ last = "stop_ok"
   /\ stops = 1
   /\ \A t \in {"raw_event_handler", "msg_in_event_handler", "app_event_handler"} :
        threads[t] # "crashed")
  => \A t \in Handlers : threads[t] = "done"

\* C20: handling ConnectionLost for a dpid in the registry marks its record
\* disconnected and puts exactly one SwitchDown for the dpid, with the
\* timestamp of the ConnectionLost, at the end of app_events; for a dpid that
\* is not in the registry nothing is put on app_events and the registry is as
\* it was.  (On a controller that is serving: stop() closes app_events.)
C20_SwitchDown ==
  [][(AppTook /\ ~closed /\ Head(app_events).kind = "KycoConnectionLost") =>
       LET e == Head(app_events)
           d == e.connection
       IN  IF d \in DOMAIN switches
           THEN /\ ~switches'[d].connected
                /\ app_events' = Append(Tail(app_events),
                                        Event("KycoSwitchDown", d, None, e.timestamp))
           ELSE /\ app_events' = Tail(app_events)
                /\ switches' = switches]_vars

\* The SwitchDown of a switch that sent a frame and went away is on
\* app_events.
C20_Witness ==
  \E s \in Socks :
    /\ frames[s] >= 1
    /\ ConnectionLostOf(s, frames[s] + 1) \in handled
    /\ sock_dpid[s] \in DOMAIN switches
    /\ ~switches[sock_dpid[s]].connected
    /\ \E i \in 1..Len(app_events) :
         app_events[i] = Event("KycoSwitchDown", sock_dpid[s], None, frames[s] + 1)


====
